---- MODULE Spec2Model ----
(***************************************************************************)
(* The resumable batch-delivery pipeline of customer-automation:           *)
(* main.py (driver), src/db_conn.py (checkpoint file, cursor paginator),   *)
(* src/process.py (batch dispatcher) and src/email_utils.py (retrying      *)
(* sender).  One operating-system process runs main() at a time; it may be *)
(* killed at any step, and a later invocation starts from the database and *)
(* the checkpoint file the earlier one left behind.                        *)
(***************************************************************************)
EXTENDS Integers, Sequences, FiniteSets, TLC

\* ---------------------------------------------------------------- bounds
MaxUser == 3          \* user_ids are 1..MaxUser
MaxRuns == 2          \* invocations of main() in one behaviour
MaxRetriesArg == 4    \* largest max_retries argument tried on send_email

\* ------------------------------------------------------ program constants
MAX_RETRIES == 3      \* email_utils.py: MAX_RETRIES
RETRY_DELAY == 2      \* email_utils.py: RETRY_DELAY (seconds)
NULL == 0             \* last_email_sent_at IS NULL (dates are 1, 2, ...)

Users == 1..MaxUser
Frequencies == {"daily", "weekly"}
Statuses == {"active", "inactive"}
\* The subscription_status columns tried: at most one user has unsubscribed.
StatusTables ==
    {[u \in Users |-> IF u \in I THEN "inactive" ELSE "active"] :
        I \in {{}} \cup {{u} : u \in Users}}
\* What one delivery attempt of send_email can meet: the hand-off succeeds,
\* smtplib raises an SMTPException, or anything else raises (for instance
\* email_template returned None and the tuple unpacking raised TypeError).
Outcomes == {"ok", "SMTPException", "Exception"}

VARIABLES
    \* ---- the world outside the process: survives exit and kill
    email_frequency,      \* users.email_frequency, per user_id
    subscription_status,  \* users.subscription_status, per user_id
    last_email_sent_at,   \* users.last_email_sent_at (committed), per user_id
    checkpoint_file,      \* content of AppConfig.CHECKPOINT_FILE
    current_date,         \* CURRENT_DATE of the database, a day number
    weekday,              \* the calendar's name of current_date
    batch_size,           \* the batch capacity fetch_users_in_batches is run with
    runs,                 \* how many times main() has been started
    killed_in_batch,      \* the previous process was killed inside process_user_batch
    \* ---- main()
    pc,                   \* where the process is ("idle": no process)
    day_name,             \* main: day_name
    stats,                \* main: stats
    session_open,         \* main: inside "with Session() as session"
    exc,                  \* the exception travelling to main's handler
    alert,                \* the alert e-mail this run has sent
    run_start,            \* what this run found when it started
    \* ---- fetch_users_in_batches (generator frame)
    frequency,            \* email_frequency argument
    last_id,              \* the local cursor
    yielded,              \* the batches this run's generators have yielded
    \* ---- process_user_batch (call frame)
    batch,                \* batch argument (a sequence of user_ids)
    idx,                  \* position of the for loop in batch
    successful_ids,       \* successful_ids
    staged,               \* UPDATEs executed in session, not yet committed
    smtp,                 \* the batch's SMTP session
    send_results,         \* what send_email did for each user of the batch
    trace,                \* effects of this call, in order
    entry,                \* stats, checkpoint and table at entry of this call
    \* ---- send_email called on its own
    send_args,            \* <<>> or <<[outcomes, max_retries]>>
    send_ret,             \* <<>> or <<the call's result>>
    \* ---- get_last_processed_id and save_checkpoint called on their own
    read_ret,             \* <<>> or <<[file, result] of the last read>>
    write_arg,            \* <<>> or <<last_id of the save_checkpoint under way>>
    \* ---- what an observer of the deployment has seen (history)
    last_kill,            \* where the last kill fell, what its batch had sent
    inbox,                \* e-mails handed off today, per user_id
    \* ---- main() started more than once at the same time
    concurrency,          \* how many processes run main() side by side
    proc,                 \* the frames of each of them (daily tier)
    delivered             \* e-mails they have handed off, per user_id

world == <<email_frequency, subscription_status, last_email_sent_at,
           checkpoint_file, current_date, weekday, batch_size, runs,
           killed_in_batch>>
mainFrame == <<pc, day_name, stats, session_open, exc, alert, run_start>>
genFrame == <<frequency, last_id, yielded>>
batchFrame == <<batch, idx, successful_ids, staged, smtp, send_results,
                trace, entry>>
sendFrame == <<send_args, send_ret>>
storeFrame == <<read_ret, write_arg>>
history == <<last_kill, inbox>>
concFrame == <<concurrency, proc, delivered>>
vars == <<world, mainFrame, genFrame, batchFrame, sendFrame, storeFrame,
          history, concFrame>>

\* ------------------------------------------------------------- sequences
Last(s) == s[Len(s)]
Range(s) == {s[k] : k \in 1..Len(s)}
Min(S) == CHOOSE x \in S : \A y \in S : x <= y
Max(S) == CHOOSE x \in S : \A y \in S : x >= y
RECURSIVE Ascending(_)
Ascending(S) == IF S = {} THEN <<>>
                ELSE <<Min(S)>> \o Ascending(S \ {Min(S)})
Take(s, n) == SubSeq(s, 1, IF n < Len(s) THEN n ELSE Len(s))
RECURSIVE Pow2(_)
Pow2(n) == IF n <= 0 THEN 1 ELSE 2 * Pow2(n - 1)

\* ------------------------------------------------------------- calendar
DayNames == <<"Sunday", "Monday", "Tuesday", "Wednesday", "Thursday",
              "Friday", "Saturday">>
NextDayName(d) ==
    LET k == CHOOSE j \in 1..Len(DayNames) : DayNames[j] = d
    IN  DayNames[(k % Len(DayNames)) + 1]

\* ------------------------------------------------- db_conn.py: checkpoint
\* The file is absent, holds text that is not a JSON document (what a kill
\* between open(..., 'w') and json.dump leaves), or holds the JSON object.
Absent == [kind |-> "absent", max_id |-> 0]
Partial == [kind |-> "partial", max_id |-> 0]
Json(n) == [kind |-> "json", max_id |-> n]

\* get_last_processed_id applied to a file content
ReadCheckpoint(f) == IF f.kind = "json" THEN f.max_id ELSE 0
get_last_processed_id == ReadCheckpoint(checkpoint_file)

\* What else the path can hold when something other than this program has
\* touched it: a file that cannot be opened for reading; a JSON document
\* that is not an object (a list, a number, null); an object without the
\* key max_id; an object whose max_id is null, a string or a float.
Unreadable == [kind |-> "unreadable", max_id |-> 0]
JsonNotObject == [kind |-> "json_not_object", max_id |-> 0]
JsonNoMaxId == [kind |-> "json_no_max_id", max_id |-> 0]
JsonMaxIdOf(type) == [kind |-> type, max_id |-> 0]
NonIntegerTypes == {"NoneType", "str", "float"}
CheckpointFiles ==
    {Absent, Partial, Unreadable, JsonNotObject, JsonNoMaxId}
    \cup {Json(n) : n \in 0..MaxUser}
    \cup {JsonMaxIdOf(t) : t \in NonIntegerTypes}

Returned(type, value) == [raised |-> FALSE, type |-> type, value |-> value]
\* get_last_processed_id on any of these: os.path.exists; open and
\* json.load(f).get('max_id', 0) under "except Exception: return 0".
\* open, json.load and .get on a non-object raise and are caught; the value
\* of max_id is returned as it is, whatever its type.
LoadMaxId(f) ==
    IF f.kind = "absent" THEN Returned("int", 0)
    ELSE IF f.kind \in {"unreadable", "partial", "json_not_object"}
    THEN Returned("int", 0)
    ELSE IF f.kind = "json_no_max_id" THEN Returned("int", 0)
    ELSE IF f.kind = "json" THEN Returned("int", f.max_id)
    ELSE Returned(f.kind, f.max_id)

CheckpointAtExhaustionIsCursor == last_id
\* save_checkpoint(0) when a query returns no row
CheckpointAtExhaustion == 0

\* ----------------------------------------------- db_conn.py: the SELECT
EligibleWhateverWasSent(u, freq) ==
    /\ subscription_status[u] = "active"
    /\ email_frequency[u] = freq
\* WHERE subscription_status = 'active' AND email_frequency = :frequency
\*   AND (last_email_sent_at < CURRENT_DATE OR last_email_sent_at IS NULL)
Eligible(u, freq) ==
    /\ subscription_status[u] = "active"
    /\ email_frequency[u] = freq
    /\ (last_email_sent_at[u] = NULL \/ last_email_sent_at[u] < current_date)

QueryNoLimit(freq, cursor, limit) ==
    Ascending({u \in Users : Eligible(u, freq) /\ u > cursor})
QueryNoCursor(freq, cursor, limit) ==
    Take(Ascending({u \in Users : Eligible(u, freq)}), limit)
\* ... AND user_id > :last_id ORDER BY user_id ASC LIMIT :limit
Query(freq, cursor, limit) ==
    Take(Ascending({u \in Users : Eligible(u, freq) /\ u > cursor}), limit)

\* ------------------------------------------- email_utils.py: send_email
CaughtSmtpOnly(e) == e = "SMTPException"
\* except (smtplib.SMTPException, Exception)
Caught(e) == e \in {"SMTPException", "Exception"}

BackoffOffByOne(attempt) == RETRY_DELAY * Pow2(attempt)
\* sleep_time = RETRY_DELAY * (2 ** (attempt - 1))
Backoff(attempt) == RETRY_DELAY * Pow2(attempt - 1)

\* for attempt in range(1, max_retries + 1)
InLoop(attempt, max_retries) == attempt <= max_retries

SendReturn(result, raised, attempts, sleeps) ==
    [result |-> result, raised |-> raised, attempts |-> attempts,
     sleeps |-> sleeps]

\* send_email from the given attempt on; outcomes[k] is what delivery
\* attempt k meets, sleeps the time.sleep calls made so far.
RECURSIVE SendFrom(_, _, _, _)
SendFrom(attempt, outcomes, max_retries, sleeps) ==
    IF ~InLoop(attempt, max_retries)
    THEN SendReturn(FALSE, FALSE, attempt - 1, sleeps)
    ELSE IF outcomes[attempt] = "ok"
    THEN SendReturn(TRUE, FALSE, attempt, sleeps)
    ELSE IF ~Caught(outcomes[attempt])
    THEN SendReturn(FALSE, TRUE, attempt, sleeps)
    ELSE IF attempt < max_retries
    THEN SendFrom(attempt + 1, outcomes, max_retries,
                  Append(sleeps, Backoff(attempt)))
    ELSE SendReturn(FALSE, FALSE, attempt, sleeps)

send_email(outcomes, max_retries) == SendFrom(1, outcomes, max_retries, <<>>)

\* ---------------------------------------------- process.py: dispatcher
ShouldUpdateAlways(ids) == TRUE
\* if successful_ids:
ShouldUpdate(ids) == ids /= <<>>

CheckpointArgLastOfBatch(ids, b) == Last(b)
CheckpointArgFirst(ids, b) == ids[1]
\* save_checkpoint(successful_ids[-1])
CheckpointArg(ids, b) == Last(ids)

StatsAfterSendFailureUncounted(st, success) ==
    [st EXCEPT !.records_processed = @ + 1,
               !.emails_sent = IF success THEN @ + 1 ELSE @]
\* stats['records_processed'] += 1, then stats['emails_sent'] += 1 or
\* stats['failed'] += 1
StatsAfterSend(st, success) ==
    [st EXCEPT !.records_processed = @ + 1,
               !.emails_sent = IF success THEN @ + 1 ELSE @,
               !.failed = IF success THEN @ ELSE @ + 1]

CursorAfterStays(b) == last_id
\* last_id = batch[-1]['user_id']
CursorAfter(b) == Last(b)

RollbackForgotten ==
    /\ staged' = staged
    /\ trace' = trace

ZeroStats == [records_processed |-> 0, emails_sent |-> 0, failed |-> 0,
              daily |-> 0, weekly |-> 0]
NoEntry == [stats |-> ZeroStats, checkpoint_file |-> Absent,
            last_email_sent_at |-> [u \in Users |-> NULL]]
NoRunStart == [checkpoint |-> 0, after_kill_in_batch |-> FALSE,
               quote |-> FALSE]

\* The positions of the process inside process_user_batch
BatchPcs == {"open_smtp", "send", "bulk_update", "commit",
             "save_checkpoint", "save_checkpoint_dump", "batch_return"}

ResetGenFrame ==
    /\ frequency' = "daily"
    /\ last_id' = 0
    /\ yielded' = <<>>

ResetBatchFrame ==
    /\ batch' = <<>>
    /\ idx' = 0
    /\ successful_ids' = <<>>
    /\ staged' = {}
    /\ smtp' = "closed"
    /\ send_results' = <<>>
    /\ trace' = <<>>
    /\ entry' = NoEntry

\* The process is gone: nothing of its memory is left.
ResetMainFrame ==
    /\ pc' = "idle"
    /\ day_name' = weekday
    /\ stats' = ZeroStats
    /\ session_open' = FALSE
    /\ exc' = "none"
    /\ alert' = "none"
    /\ run_start' = NoRunStart

\* session.rollback(): everything executed and not committed is undone
Rollback ==
    /\ staged' = {}
    /\ trace' = Append(trace, "rollback")

\* ================================================================ actions

\* ------------------------------------------------------------ main.py
\* A process starts main() and get_quote returns a quote: main enters
\* "with Session() as session" and asks the daily generator for its first
\* batch, which makes the generator read the checkpoint (main.py 23-53,
\* db_conn.py 84).
StartRun ==
    /\ pc = "idle"
    /\ runs < MaxRuns
    /\ runs' = runs + 1
    /\ day_name' = weekday
    /\ stats' = ZeroStats
    /\ session_open' = TRUE
    /\ exc' = "none"
    /\ alert' = "none"
    /\ run_start' = [checkpoint |-> get_last_processed_id,
                     after_kill_in_batch |-> killed_in_batch,
                     quote |-> TRUE]
    /\ killed_in_batch' = FALSE
    /\ frequency' = "daily"
    /\ last_id' = get_last_processed_id
    /\ yielded' = <<>>
    /\ pc' = "gen_query"
    /\ UNCHANGED <<email_frequency, subscription_status, last_email_sent_at,
                   checkpoint_file, current_date, weekday, batch_size>>
    /\ UNCHANGED <<batchFrame, sendFrame>>

\* A process starts main() and get_quote returns (None, None) or an empty
\* quote: main logs and returns (main.py 41-45).
QuoteMissing ==
    /\ pc = "idle"
    /\ runs < MaxRuns
    /\ runs' = runs + 1
    /\ day_name' = weekday
    /\ run_start' = [checkpoint |-> get_last_processed_id,
                     after_kill_in_batch |-> killed_in_batch,
                     quote |-> FALSE]
    /\ killed_in_batch' = FALSE
    /\ pc' = "exit"
    /\ UNCHANGED <<email_frequency, subscription_status, last_email_sent_at,
                   checkpoint_file, current_date, weekday, batch_size>>
    /\ UNCHANGED <<stats, session_open, exc, alert>>
    /\ UNCHANGED <<genFrame, batchFrame, sendFrame>>

\* Midnight passes while no process runs; the behaviour covers the day of
\* deployment and the day after it.
NextDay ==
    /\ pc = "idle"
    /\ 0 < runs /\ runs < MaxRuns
    /\ current_date = 1
    /\ current_date' = current_date + 1
    /\ weekday' = NextDayName(weekday)
    /\ day_name' = weekday'
    /\ UNCHANGED <<email_frequency, subscription_status, last_email_sent_at,
                   checkpoint_file, batch_size, runs, killed_in_batch>>
    /\ UNCHANGED <<pc, stats, session_open, exc, alert, run_start>>
    /\ UNCHANGED <<genFrame, batchFrame, sendFrame>>

\* log_final_summary and the report alert; main returns (main.py 68-78).
Report ==
    /\ alert' = "report"
    /\ pc' = "exit"

EndDailyGoesWeeklyAnyDay ==
    /\ pc = "gen_reset_dump"
    /\ frequency = "daily"
    /\ checkpoint_file' = Json(CheckpointAtExhaustion)
    /\ session_open' = FALSE
    /\ frequency' = "weekly"
    /\ last_id' = ReadCheckpoint(checkpoint_file')
    /\ pc' = "gen_query"
    /\ alert' = alert
    /\ UNCHANGED <<email_frequency, subscription_status, last_email_sent_at,
                   current_date, weekday, batch_size, runs, killed_in_batch>>
    /\ UNCHANGED <<day_name, stats, exc, run_start, yielded>>
    /\ UNCHANGED <<batchFrame, sendFrame>>
\* The daily generator ends: json.dump of save_checkpoint(0) and break
\* (db_conn.py 65, 109); the with block of main ends; on a Monday the weekly
\* generator is created and reads the checkpoint, otherwise the run is
\* reported (main.py 56-66).
EndDaily ==
    /\ pc = "gen_reset_dump"
    /\ frequency = "daily"
    /\ checkpoint_file' = Json(CheckpointAtExhaustion)
    /\ session_open' = FALSE
    /\ IF day_name = "Monday"
       THEN /\ frequency' = "weekly"
            /\ last_id' = ReadCheckpoint(checkpoint_file')
            /\ pc' = "gen_query"
            /\ alert' = alert
       ELSE /\ Report
            /\ UNCHANGED <<frequency, last_id>>
    /\ UNCHANGED <<email_frequency, subscription_status, last_email_sent_at,
                   current_date, weekday, batch_size, runs, killed_in_batch>>
    /\ UNCHANGED <<day_name, stats, exc, run_start, yielded>>
    /\ UNCHANGED <<batchFrame, sendFrame>>

\* The weekly generator ends the same way, and the run is reported.
EndWeekly ==
    /\ pc = "gen_reset_dump"
    /\ frequency = "weekly"
    /\ checkpoint_file' = Json(CheckpointAtExhaustion)
    /\ Report
    /\ UNCHANGED <<email_frequency, subscription_status, last_email_sent_at,
                   current_date, weekday, batch_size, runs, killed_in_batch>>
    /\ UNCHANGED <<day_name, stats, session_open, exc, run_start>>
    /\ UNCHANGED <<genFrame, batchFrame, sendFrame>>

MainExceptGoesOn(e) ==
    /\ exc' = e
    /\ alert' = "failure"
    /\ session_open' = FALSE
    /\ pc' = "gen_query"
\* An exception reaches main: "except Exception" sends the failure alert and
\* calls sys.exit(1) (main.py 80-89).
MainExcept(e) ==
    /\ exc' = e
    /\ alert' = "failure"
    /\ session_open' = FALSE
    /\ pc' = "exit"

\* The process ends: main has returned, or sys.exit(1) has run.
Exit ==
    /\ pc = "exit"
    /\ killed_in_batch' = FALSE
    /\ ResetMainFrame
    /\ ResetGenFrame
    /\ ResetBatchFrame
    /\ UNCHANGED <<email_frequency, subscription_status, last_email_sent_at,
                   checkpoint_file, current_date, weekday, batch_size, runs>>
    /\ UNCHANGED sendFrame

\* The process is killed (or the machine stops) at any point: its memory
\* and the open transaction are gone, the table and the file stay.
Kill ==
    /\ pc \notin {"idle", "exit"}
    /\ killed_in_batch' = (pc \in BatchPcs)
    /\ ResetMainFrame
    /\ ResetGenFrame
    /\ ResetBatchFrame
    /\ UNCHANGED <<email_frequency, subscription_status, last_email_sent_at,
                   checkpoint_file, current_date, weekday, batch_size, runs>>
    /\ UNCHANGED sendFrame

\* ---------------------------------------- db_conn.py: the generator
\* The query returns rows: the cursor moves to the last row and the batch
\* is yielded; main calls process_user_batch with it (db_conn.py 101-115,
\* main.py 54/62, process.py 54).
GenYield ==
    /\ pc = "gen_query"
    /\ Query(frequency, last_id, batch_size) /= <<>>
    /\ batch' = Query(frequency, last_id, batch_size)
    /\ last_id' = CursorAfter(batch')
    /\ yielded' = Append(yielded, [frequency |-> frequency, batch |-> batch'])
    /\ idx' = 0
    /\ successful_ids' = <<>>
    /\ send_results' = <<>>
    /\ trace' = <<>>
    /\ entry' = [stats |-> stats, checkpoint_file |-> checkpoint_file,
                 last_email_sent_at |-> last_email_sent_at]
    /\ pc' = "open_smtp"
    /\ UNCHANGED <<day_name, stats, session_open, exc, alert, run_start,
                   frequency, staged, smtp>>
    /\ UNCHANGED <<world, sendFrame>>

\* The query returns no row: save_checkpoint(0) opens the file for writing,
\* which empties it (db_conn.py 105-108, 63).
GenExhausted ==
    /\ pc = "gen_query"
    /\ Query(frequency, last_id, batch_size) = <<>>
    /\ checkpoint_file' = Partial
    /\ pc' = "gen_reset_dump"
    /\ UNCHANGED <<email_frequency, subscription_status, last_email_sent_at,
                   current_date, weekday, batch_size, runs, killed_in_batch>>
    /\ UNCHANGED <<day_name, stats, session_open, exc, alert, run_start>>
    /\ UNCHANGED <<genFrame, batchFrame, sendFrame>>

GenQueryFailsSkipsPage ==
    /\ pc = "gen_query"
    /\ last_id < MaxUser
    /\ last_id' = last_id + 1
    /\ UNCHANGED <<frequency, yielded>>
    /\ UNCHANGED <<world, mainFrame, batchFrame, sendFrame>>
\* session.execute raises: logged and re-raised to main (db_conn.py 117-119).
GenQueryFails ==
    /\ pc = "gen_query"
    /\ MainExcept("query")
    /\ UNCHANGED <<day_name, stats, run_start>>
    /\ UNCHANGED <<world, genFrame, batchFrame, sendFrame>>

\* ------------------------------------- process.py: process_user_batch
\* An exception leaves process_user_batch: the handler of line 106 rolls
\* the session back and re-raises to main.
Raise(e) ==
    /\ Rollback
    /\ smtp' = "closed"
    /\ MainExcept(e)

\* smtplib.SMTP(...), starttls and login succeed (lines 58-60).
OpenSmtp ==
    /\ pc = "open_smtp"
    /\ smtp' = "open"
    /\ idx' = 1
    /\ trace' = Append(trace, "smtp_open")
    /\ pc' = "send"
    /\ UNCHANGED <<day_name, stats, session_open, exc, alert, run_start>>
    /\ UNCHANGED <<batch, successful_ids, staged, send_results, entry>>
    /\ UNCHANGED <<world, genFrame, sendFrame>>

OpenSmtpFailsCountsBatch ==
    /\ pc = "open_smtp"
    /\ Raise("smtp")
    /\ stats' = [stats EXCEPT !.failed = @ + Len(batch)]
    /\ UNCHANGED <<day_name, run_start>>
    /\ UNCHANGED <<batch, idx, successful_ids, send_results, entry>>
    /\ UNCHANGED <<world, genFrame, sendFrame>>
\* smtplib.SMTP(...) raises and there is no session; or it returns and
\* starttls or login raises inside the with block, whose exit closes the
\* session; either way the handler of line 106 rolls back and re-raises
\* (lines 58-60, 106-110).
OpenSmtpFails ==
    /\ pc = "open_smtp"
    /\ \E connected \in BOOLEAN :
         trace' = trace
                  \o (IF connected THEN <<"smtp_connect", "smtp_close">>
                      ELSE <<>>)
                  \o <<"rollback">>
    /\ staged' = {}
    /\ smtp' = "closed"
    /\ MainExcept("smtp")
    /\ UNCHANGED <<day_name, stats, run_start>>
    /\ UNCHANGED <<batch, idx, successful_ids, send_results, entry>>
    /\ UNCHANGED <<world, genFrame, sendFrame>>

\* One iteration of "for user in batch" (lines 62-80); r is what the
\* send_email call does on some outcomes of its delivery attempts.
SendOne ==
    /\ pc = "send"
    /\ idx <= Len(batch)
    /\ \E r \in {send_email(outcomes, MAX_RETRIES) :
                    outcomes \in [1..MAX_RETRIES -> Outcomes]} :
         LET success == r.result /\ ~r.raised
         IN  /\ stats' = StatsAfterSend(stats, success)
             /\ successful_ids' = IF success
                                  THEN Append(successful_ids, batch[idx])
                                  ELSE successful_ids
             /\ send_results' = Append(send_results,
                   [user_id |-> batch[idx],
                    result |-> IF r.raised THEN "raised"
                               ELSE IF r.result THEN "true" ELSE "false"])
    /\ idx' = idx + 1
    /\ trace' = Append(trace, "send")
    /\ UNCHANGED <<pc, day_name, session_open, exc, alert, run_start>>
    /\ UNCHANGED <<batch, staged, smtp, entry>>
    /\ UNCHANGED <<world, genFrame, sendFrame>>

CloseSmtpLeavesOpen ==
    /\ pc = "send"
    /\ idx > Len(batch)
    /\ smtp' = smtp
    /\ trace' = Append(trace, "sleep")
    /\ pc' = IF ShouldUpdate(successful_ids) THEN "bulk_update"
             ELSE "batch_return"
    /\ UNCHANGED <<day_name, stats, session_open, exc, alert, run_start>>
    /\ UNCHANGED <<batch, idx, successful_ids, staged, send_results, entry>>
    /\ UNCHANGED <<world, genFrame, sendFrame>>
\* The loop is over: time.sleep(RATE_LIMIT_DELAY), the SMTP with block
\* ends, and "if successful_ids" is decided (lines 83-86).
CloseSmtp ==
    /\ pc = "send"
    /\ idx > Len(batch)
    /\ smtp' = "closed"
    /\ trace' = trace \o <<"sleep", "smtp_close">>
    /\ pc' = IF ShouldUpdate(successful_ids) THEN "bulk_update"
             ELSE "batch_return"
    /\ UNCHANGED <<day_name, stats, session_open, exc, alert, run_start>>
    /\ UNCHANGED <<batch, idx, successful_ids, staged, send_results, entry>>
    /\ UNCHANGED <<world, genFrame, sendFrame>>

\* session.execute(UPDATE ... WHERE user_id IN :ids) (lines 89-92).
BulkUpdate ==
    /\ pc = "bulk_update"
    /\ staged' = Range(successful_ids)
    /\ trace' = Append(trace, "execute")
    /\ pc' = "commit"
    /\ UNCHANGED <<day_name, stats, session_open, exc, alert, run_start>>
    /\ UNCHANGED <<batch, idx, successful_ids, smtp, send_results, entry>>
    /\ UNCHANGED <<world, genFrame, sendFrame>>

\* The UPDATE raises: rollback and re-raise (lines 99-103, 106-110).
BulkUpdateFails ==
    /\ pc = "bulk_update"
    /\ Raise("update")
    /\ UNCHANGED <<day_name, stats, run_start>>
    /\ UNCHANGED <<batch, idx, successful_ids, send_results, entry>>
    /\ UNCHANGED <<world, genFrame, sendFrame>>

\* session.commit() (line 93): the staged rows get CURRENT_TIMESTAMP.
Commit ==
    /\ pc = "commit"
    /\ last_email_sent_at' = [u \in Users |->
           IF u \in staged THEN current_date ELSE last_email_sent_at[u]]
    /\ staged' = {}
    /\ trace' = Append(trace, "commit")
    /\ pc' = "save_checkpoint"
    /\ UNCHANGED <<email_frequency, subscription_status, checkpoint_file,
                   current_date, weekday, batch_size, runs, killed_in_batch>>
    /\ UNCHANGED <<day_name, stats, session_open, exc, alert, run_start>>
    /\ UNCHANGED <<batch, idx, successful_ids, smtp, send_results, entry>>
    /\ UNCHANGED <<genFrame, sendFrame>>

\* session.commit() raises: rollback and re-raise (lines 99-103, 106-110).
CommitFails ==
    /\ pc = "commit"
    /\ Raise("commit")
    /\ UNCHANGED <<day_name, stats, run_start>>
    /\ UNCHANGED <<batch, idx, successful_ids, send_results, entry>>
    /\ UNCHANGED <<world, genFrame, sendFrame>>

\* save_checkpoint(successful_ids[-1]): open(CHECKPOINT_FILE, 'w') empties
\* the file (process.py 96, db_conn.py 63).
SaveCheckpointOpen ==
    /\ pc = "save_checkpoint"
    /\ checkpoint_file' = Partial
    /\ pc' = "save_checkpoint_dump"
    /\ UNCHANGED <<email_frequency, subscription_status, last_email_sent_at,
                   current_date, weekday, batch_size, runs, killed_in_batch>>
    /\ UNCHANGED <<day_name, stats, session_open, exc, alert, run_start>>
    /\ UNCHANGED <<genFrame, batchFrame, sendFrame>>

\* ... and json.dump writes the object (db_conn.py 65).
SaveCheckpointDump ==
    /\ pc = "save_checkpoint_dump"
    /\ checkpoint_file' = Json(CheckpointArg(successful_ids, batch))
    /\ trace' = Append(trace, "save_checkpoint")
    /\ pc' = "batch_return"
    /\ UNCHANGED <<email_frequency, subscription_status, last_email_sent_at,
                   current_date, weekday, batch_size, runs, killed_in_batch>>
    /\ UNCHANGED <<day_name, stats, session_open, exc, alert, run_start>>
    /\ UNCHANGED <<batch, idx, successful_ids, staged, smtp, send_results,
                   entry>>
    /\ UNCHANGED <<genFrame, sendFrame>>

BatchReturnBeforeCommit ==
    /\ pc \in {"commit", "batch_return"}
    /\ stats' = [stats EXCEPT ![frequency] = @ + Len(batch)]
    /\ pc' = "gen_query"
    /\ ResetBatchFrame
    /\ UNCHANGED <<day_name, session_open, exc, alert, run_start>>
    /\ UNCHANGED <<world, genFrame, sendFrame>>
\* process_user_batch returns; main adds len(batch) to the tier's count and
\* asks the generator for the next batch (main.py 55/63).
BatchReturn ==
    /\ pc = "batch_return"
    /\ stats' = [stats EXCEPT ![frequency] = @ + Len(batch)]
    /\ pc' = "gen_query"
    /\ ResetBatchFrame
    /\ UNCHANGED <<day_name, session_open, exc, alert, run_start>>
    /\ UNCHANGED <<world, genFrame, sendFrame>>

\* ------------------------------------------ send_email called on its own
CallSendEmail ==
    /\ send_args /= <<>>
    /\ send_ret = <<>>
    /\ send_ret' = <<send_email(send_args[1].outcomes,
                                send_args[1].max_retries)>>
    /\ UNCHANGED <<world, mainFrame, genFrame, batchFrame, send_args>>

\* ------------------- the checkpoint functions called on their own
\* get_last_processed_id()
CallGetLastProcessedId ==
    /\ write_arg = <<>>
    /\ read_ret' = <<[file |-> checkpoint_file,
                      result |-> LoadMaxId(checkpoint_file)]>>
    /\ UNCHANGED <<world, mainFrame, genFrame, batchFrame, sendFrame,
                   write_arg, history>>

\* save_checkpoint(n): open(CHECKPOINT_FILE, 'w') creates or empties the
\* file (a path that cannot be opened is left out: open raises there).
CallSaveCheckpointOpen ==
    /\ write_arg = <<>>
    /\ checkpoint_file.kind /= "unreadable"
    /\ \E n \in 0..MaxUser : write_arg' = <<n>>
    /\ checkpoint_file' = Partial
    /\ UNCHANGED <<email_frequency, subscription_status, last_email_sent_at,
                   current_date, weekday, batch_size, runs, killed_in_batch>>
    /\ UNCHANGED <<mainFrame, genFrame, batchFrame, sendFrame, read_ret,
                   history>>

\* ... json.dump writes the object and the with block closes the file.
CallSaveCheckpointDump ==
    /\ write_arg /= <<>>
    /\ checkpoint_file' = Json(write_arg[1])
    /\ write_arg' = <<>>
    /\ UNCHANGED <<email_frequency, subscription_status, last_email_sent_at,
                   current_date, weekday, batch_size, runs, killed_in_batch>>
    /\ UNCHANGED <<mainFrame, genFrame, batchFrame, sendFrame, read_ret,
                   history>>

\* The process is killed between the two.
KillInSaveCheckpoint ==
    /\ write_arg /= <<>>
    /\ write_arg' = <<>>
    /\ UNCHANGED <<world, mainFrame, genFrame, batchFrame, sendFrame,
                   read_ret, history>>

\* --------------------- main() running in several processes side by side
\* Each process has its own generator and dispatcher frames; the users
\* table and the checkpoint file are the ones they share.  The processes
\* go through the daily tier; every query, SMTP session, UPDATE and commit
\* succeeds, single sends may fail.
Procs == 1..2
NoFrame == [pc |-> "idle", read |-> 0, last_id |-> 0, batch |-> <<>>,
            idx |-> 0, successful_ids |-> <<>>, stale |-> {}]

\* main() is started in process p: the daily generator reads the
\* checkpoint (main.py 53, db_conn.py 84).
ProcStart(p) ==
    /\ p <= concurrency
    /\ proc[p].pc = "idle"
    /\ proc' = [proc EXCEPT ![p] =
                  [NoFrame EXCEPT !.pc = "gen_query",
                                  !.read = get_last_processed_id,
                                  !.last_id = get_last_processed_id]]
    /\ UNCHANGED <<world, concurrency, delivered>>

\* The query of p returns rows: the cursor moves, the batch is yielded and
\* process_user_batch opens its SMTP session (db_conn.py 101-115,
\* process.py 55-60).  stale: the rows of the batch that carried today's
\* committed last_email_sent_at when they were fetched.
ProcYield(p) ==
    /\ proc[p].pc = "gen_query"
    /\ Query("daily", proc[p].last_id, batch_size) /= <<>>
    /\ LET b == Query("daily", proc[p].last_id, batch_size)
       IN  proc' = [proc EXCEPT ![p] =
                      [@ EXCEPT !.pc = "send",
                                !.batch = b,
                                !.last_id = CursorAfter(b),
                                !.idx = 1,
                                !.successful_ids = <<>>,
                                !.stale = {u \in Range(b) :
                                    last_email_sent_at[u] = current_date}]]
    /\ UNCHANGED <<world, concurrency, delivered>>

\* The query of p returns no row: save_checkpoint(0) and the generator
\* ends; main reports (db_conn.py 105-109, main.py 56-78).
ProcExhausted(p) ==
    /\ proc[p].pc = "gen_query"
    /\ Query("daily", proc[p].last_id, batch_size) = <<>>
    /\ checkpoint_file' = Json(CheckpointAtExhaustion)
    /\ proc' = [proc EXCEPT ![p].pc = "exit"]
    /\ UNCHANGED <<email_frequency, subscription_status, last_email_sent_at,
                   current_date, weekday, batch_size, runs, killed_in_batch>>
    /\ UNCHANGED <<concurrency, delivered>>

\* One iteration of the for loop of p (process.py 62-80).
ProcSendOne(p) ==
    /\ proc[p].pc = "send"
    /\ proc[p].idx <= Len(proc[p].batch)
    /\ \E success \in BOOLEAN :
         LET u == proc[p].batch[proc[p].idx]
         IN  /\ proc' = [proc EXCEPT ![p] =
                   [@ EXCEPT !.idx = @ + 1,
                             !.successful_ids =
                                 IF success THEN Append(@, u) ELSE @]]
             /\ delivered' = IF success
                             THEN [delivered EXCEPT ![u] = @ + 1]
                             ELSE delivered
    /\ UNCHANGED <<world, concurrency>>

\* The loop of p is over: the SMTP session ends and "if successful_ids" is
\* decided; with nothing sent the call returns (process.py 83-86).
ProcCloseSmtp(p) ==
    /\ proc[p].pc = "send"
    /\ proc[p].idx > Len(proc[p].batch)
    /\ proc' = [proc EXCEPT ![p].pc =
                  IF ShouldUpdate(proc[p].successful_ids) THEN "commit"
                  ELSE "gen_query"]
    /\ UNCHANGED <<world, concurrency, delivered>>

\* The UPDATE of p and its commit (process.py 89-93).
ProcCommit(p) ==
    /\ proc[p].pc = "commit"
    /\ last_email_sent_at' = [u \in Users |->
           IF u \in Range(proc[p].successful_ids) THEN current_date
           ELSE last_email_sent_at[u]]
    /\ proc' = [proc EXCEPT ![p].pc = "save_checkpoint"]
    /\ UNCHANGED <<email_frequency, subscription_status, checkpoint_file,
                   current_date, weekday, batch_size, runs, killed_in_batch>>
    /\ UNCHANGED <<concurrency, delivered>>

\* save_checkpoint(successful_ids[-1]) of p, and the call returns to the
\* loop of main (process.py 96, main.py 53-55).  The opening and the dump
\* are one step here: the file matters to the other process only through
\* the value ProcStart reads.
ProcSaveCheckpoint(p) ==
    /\ proc[p].pc = "save_checkpoint"
    /\ checkpoint_file' =
          Json(CheckpointArg(proc[p].successful_ids, proc[p].batch))
    /\ proc' = [proc EXCEPT ![p].pc = "gen_query"]
    /\ UNCHANGED <<email_frequency, subscription_status, last_email_sent_at,
                   current_date, weekday, batch_size, runs, killed_in_batch>>
    /\ UNCHANGED <<concurrency, delivered>>

\* ------------------------------------------------------------ observer
\* What is remembered of the last kill: nothing when the process ended by
\* itself or was killed outside process_user_batch; otherwise how far the
\* batch in hand had come, the users it had sent to, the checkpoint
\* written by the last batch that had completed its checkpoint write, and
\* the day.
NoKill == [phase |-> "none", sent |-> {}, checkpoint |-> 0, date |-> 0]
\* "sending": nothing of the batch is committed; "committed": the commit
\* has returned and the checkpoint write has not; "returned": both have.
KillPhase(p) ==
    IF p \in {"save_checkpoint", "save_checkpoint_dump"} THEN "committed"
    ELSE IF p = "batch_return" THEN "returned"
    ELSE "sending"

\* The observer's record of one step of the program: a kill inside
\* process_user_batch is noted, a regular end of the process clears the
\* note; a send_email that returned True adds to the user's inbox, and
\* midnight starts a new day's count.
Observe ==
    /\ last_kill' =
          IF pc \in BatchPcs /\ pc' = "idle"
          THEN [phase |-> KillPhase(pc),
                sent |-> Range(successful_ids),
                checkpoint |-> IF pc = "batch_return"
                               THEN ReadCheckpoint(checkpoint_file)
                               ELSE ReadCheckpoint(entry.checkpoint_file),
                date |-> current_date]
          ELSE IF pc' = "idle" /\ pc /= "idle" THEN NoKill
          ELSE last_kill
    /\ inbox' =
          IF current_date' /= current_date THEN [u \in Users |-> 0]
          ELSE IF /\ pc = "send" /\ idx' = idx + 1
                  /\ Last(send_results').result = "true"
          THEN [inbox EXCEPT ![batch[idx]] = @ + 1]
          ELSE inbox

\* ============================================================ specification
\* One process at a time (the other specifications)
InitOneProcess ==
    /\ concurrency = 1
    /\ proc = [p \in Procs |-> NoFrame]
    /\ delivered = [u \in Users |-> 0]

InitProcess ==
    /\ pc = "idle"
    /\ day_name = weekday
    /\ stats = ZeroStats
    /\ session_open = FALSE
    /\ exc = "none"
    /\ alert = "none"
    /\ run_start = NoRunStart
    /\ frequency = "daily"
    /\ last_id = 0
    /\ yielded = <<>>
    /\ batch = <<>>
    /\ idx = 0
    /\ successful_ids = <<>>
    /\ staged = {}
    /\ smtp = "closed"
    /\ send_results = <<>>
    /\ trace = <<>>
    /\ entry = NoEntry

\* A fresh deployment, on a Monday: nobody has been e-mailed yet and there
\* is no checkpoint file.
InitWorld ==
    /\ last_email_sent_at = [u \in Users |-> NULL]
    /\ checkpoint_file = Absent
    /\ current_date = 1
    /\ weekday = "Monday"
    /\ runs = 0
    /\ killed_in_batch = FALSE

Init ==
    /\ InitWorld
    /\ InitProcess
    /\ email_frequency \in [Users -> Frequencies]
    /\ subscription_status \in StatusTables
    /\ batch_size \in 1..MaxUser
    /\ send_args = <<>>
    /\ send_ret = <<>>
    /\ read_ret = <<>>
    /\ write_arg = <<>>
    /\ last_kill = NoKill
    /\ inbox = [u \in Users |-> 0]
    /\ InitOneProcess

\* The program alone: nothing is observed.
Alone(A) == A /\ UNCHANGED history /\ UNCHANGED storeFrame
            /\ UNCHANGED concFrame

Next ==
    \/ Alone(StartRun) \/ Alone(QuoteMissing) \/ Alone(NextDay)
    \/ Alone(EndDaily) \/ Alone(EndWeekly) \/ Alone(Exit) \/ Alone(Kill)
    \/ Alone(GenYield) \/ Alone(GenExhausted) \/ Alone(GenQueryFails)
    \/ Alone(OpenSmtp) \/ Alone(OpenSmtpFails) \/ Alone(SendOne)
    \/ Alone(CloseSmtp) \/ Alone(BulkUpdate) \/ Alone(BulkUpdateFails)
    \/ Alone(Commit) \/ Alone(CommitFails) \/ Alone(SaveCheckpointOpen)
    \/ Alone(SaveCheckpointDump) \/ Alone(BatchReturn)

Spec == Init /\ [][Next]_vars

\* The program with the observer
Observed(A) == A /\ Observe /\ UNCHANGED storeFrame /\ UNCHANGED concFrame

NextObserved ==
    \/ Observed(StartRun) \/ Observed(QuoteMissing) \/ Observed(NextDay)
    \/ Observed(EndDaily) \/ Observed(EndWeekly) \/ Observed(Exit)
    \/ Observed(Kill) \/ Observed(GenYield) \/ Observed(GenExhausted)
    \/ Observed(GenQueryFails) \/ Observed(OpenSmtp)
    \/ Observed(OpenSmtpFails) \/ Observed(SendOne) \/ Observed(CloseSmtp)
    \/ Observed(BulkUpdate) \/ Observed(BulkUpdateFails)
    \/ Observed(Commit) \/ Observed(CommitFails)
    \/ Observed(SaveCheckpointOpen) \/ Observed(SaveCheckpointDump)
    \/ Observed(BatchReturn)

\* ... on tables where every user is subscribed and at most one is weekly
InitObserved ==
    /\ Init
    /\ subscription_status = [u \in Users |-> "active"]
    /\ \E w \in {0} \cup Users :
         email_frequency = [u \in Users |-> IF u = w THEN "weekly"
                                            ELSE "daily"]
SpecObserved == InitObserved /\ [][NextObserved]_vars

\* send_email alone, on every outcome of every attempt and every max_retries
InitSend ==
    /\ InitWorld
    /\ InitProcess
    /\ email_frequency = [u \in Users |-> "daily"]
    /\ subscription_status = [u \in Users |-> "active"]
    /\ batch_size = 1
    /\ send_args \in {<<[outcomes |-> o, max_retries |-> m]>> :
                        o \in [1..MaxRetriesArg -> Outcomes],
                        m \in 0..MaxRetriesArg}
    /\ send_ret = <<>>
    /\ read_ret = <<>>
    /\ write_arg = <<>>
    /\ last_kill = NoKill
    /\ inbox = [u \in Users |-> 0]
    /\ InitOneProcess

NextSend == Alone(CallSendEmail)

SpecSend == InitSend /\ [][NextSend]_vars

\* The program when nothing fails and nobody kills it: every query,
\* SMTP session, UPDATE and commit succeeds (single sends may still fail).
\* The process is sequential and is scheduled until it ends, so a step
\* that is possible is eventually taken.
NextLive ==
    \/ Alone(StartRun) \/ Alone(QuoteMissing) \/ Alone(NextDay)
    \/ Alone(EndDaily) \/ Alone(EndWeekly) \/ Alone(Exit)
    \/ Alone(GenYield) \/ Alone(GenExhausted)
    \/ Alone(OpenSmtp) \/ Alone(SendOne) \/ Alone(CloseSmtp)
    \/ Alone(BulkUpdate) \/ Alone(Commit)
    \/ Alone(SaveCheckpointOpen) \/ Alone(SaveCheckpointDump)
    \/ Alone(BatchReturn)

SpecLive == Init /\ [][NextLive]_vars /\ WF_vars(NextLive)

\* One or two processes started side by side on a fresh deployment whose
\* users are all daily subscribers, at most one of them unsubscribed
InitConcurrent ==
    /\ InitWorld
    /\ InitProcess
    /\ email_frequency = [u \in Users |-> "daily"]
    /\ subscription_status \in StatusTables
    /\ batch_size \in 1..MaxUser
    /\ send_args = <<>>
    /\ send_ret = <<>>
    /\ read_ret = <<>>
    /\ write_arg = <<>>
    /\ last_kill = NoKill
    /\ inbox = [u \in Users |-> 0]
    /\ concurrency \in Procs
    /\ proc = [p \in Procs |-> NoFrame]
    /\ delivered = [u \in Users |-> 0]

Concurrent(A) ==
    A /\ UNCHANGED <<mainFrame, genFrame, batchFrame, sendFrame, storeFrame,
                     history>>

NextConcurrent ==
    \/ \E p \in Procs : Concurrent(ProcStart(p))
    \/ \E p \in Procs : Concurrent(ProcYield(p))
    \/ \E p \in Procs : Concurrent(ProcExhausted(p))
    \/ \E p \in Procs : Concurrent(ProcSendOne(p))
    \/ \E p \in Procs : Concurrent(ProcCloseSmtp(p))
    \/ \E p \in Procs : Concurrent(ProcCommit(p))
    \/ \E p \in Procs : Concurrent(ProcSaveCheckpoint(p))

SpecConcurrent == InitConcurrent /\ [][NextConcurrent]_vars

\* The checkpoint functions alone, on every content of the checkpoint path
InitStore ==
    /\ last_email_sent_at = [u \in Users |-> NULL]
    /\ current_date = 1
    /\ weekday = "Monday"
    /\ runs = 0
    /\ killed_in_batch = FALSE
    /\ InitProcess
    /\ email_frequency = [u \in Users |-> "daily"]
    /\ subscription_status = [u \in Users |-> "active"]
    /\ batch_size = 1
    /\ checkpoint_file \in CheckpointFiles
    /\ send_args = <<>>
    /\ send_ret = <<>>
    /\ read_ret = <<>>
    /\ write_arg = <<>>
    /\ last_kill = NoKill
    /\ inbox = [u \in Users |-> 0]
    /\ InitOneProcess

NextStore ==
    \/ CallGetLastProcessedId /\ UNCHANGED concFrame
    \/ CallSaveCheckpointOpen /\ UNCHANGED concFrame
    \/ CallSaveCheckpointDump /\ UNCHANGED concFrame
    \/ KillInSaveCheckpoint /\ UNCHANGED concFrame

SpecStore == InitStore /\ [][NextStore]_vars

\* ================================================================== claims
\* What the batch in hand has done to the database and the checkpoint
DbEffects == SelectSeq(trace, LAMBDA e : e \in {"execute", "commit",
                                                "save_checkpoint"})
\* The user_ids of the batch in hand whose send_email returned True
SentOk == {send_results[k].user_id :
             k \in {j \in 1..Len(send_results) :
                      send_results[j].result = "true"}}
\* The loop over the batch in hand is over and no send of it succeeded
AllSendsFailed ==
    /\ batch /= <<>>
    /\ Len(send_results) = Len(batch)
    /\ SentOk = {}

\* C1: the value get_last_processed_id reads from the checkpoint file is 0
\* or the user_id of a user whose last_email_sent_at is committed; and
\* while process_user_batch has changed the file, the batch's update is
\* committed (nothing is staged, every successful user carries today's
\* date, the commit precedes the write).
C1_CheckpointIsCommitted ==
    /\ get_last_processed_id = 0
       \/ /\ get_last_processed_id \in Users
          /\ last_email_sent_at[get_last_processed_id] /= NULL
    /\ (pc \in BatchPcs /\ checkpoint_file /= entry.checkpoint_file) =>
          /\ staged = {}
          /\ \E k \in 1..Len(trace) : trace[k] = "commit"
          /\ \A u \in Range(successful_ids) :
                last_email_sent_at[u] = current_date

\* C1 witness: a second run, started after a kill inside a batch, finds a
\* non-zero checkpoint and has itself advanced it.
C1_Witness ==
    /\ runs = 2
    /\ run_start.after_kill_in_batch
    /\ run_start.checkpoint > 0
    /\ pc = "batch_return"
    /\ get_last_processed_id > run_start.checkpoint

\* C2: when the UPDATE or the commit of process_user_batch has raised, the
\* session is rolled back (nothing staged, the table as at entry), the
\* error has reached main's handler, and the checkpoint file is what it
\* was when the batch started.
C2_UpdateFailureKeepsCheckpoint ==
    (pc = "exit" /\ exc \in {"update", "commit"}) =>
        /\ staged = {}
        /\ trace /= <<>> /\ Last(trace) = "rollback"
        /\ last_email_sent_at = entry.last_email_sent_at
        /\ checkpoint_file = entry.checkpoint_file
        /\ alert = "failure"

\* C2 witness: the commit of a later batch fails while the checkpoint holds
\* the value an earlier batch wrote.
C2_Witness ==
    /\ pc = "exit"
    /\ exc = "commit"
    /\ successful_ids /= <<>>
    /\ entry.checkpoint_file.kind = "json"
    /\ entry.checkpoint_file.max_id > 0

\* C3: when every send of the batch has failed, process_user_batch goes
\* straight to its return: no UPDATE, no commit, no checkpoint write, and
\* the users table and the checkpoint file are as at entry.
C3_AllFailedChangesNothing ==
    (pc \in BatchPcs /\ AllSendsFailed) =>
        /\ pc \in {"send", "batch_return"}
        /\ DbEffects = <<>>
        /\ staged = {}
        /\ last_email_sent_at = entry.last_email_sent_at
        /\ checkpoint_file = entry.checkpoint_file

\* C3 witness: a batch of at least two users returns with every send failed.
C3_Witness ==
    /\ pc = "batch_return"
    /\ AllSendsFailed
    /\ Len(batch) >= 2
    /\ stats.failed - entry.stats.failed = Len(batch)

\* The batches this run's daily generator has yielded
DailyYielded == SelectSeq(yielded, LAMBDA y : y.frequency = "daily")
\* The user_ids of the batches in a sequence of yields
YieldedUsers(ys) == UNION {Range(ys[k].batch) : k \in 1..Len(ys)}
StrictlyIncreasing(b) == \A k \in 1..(Len(b) - 1) : b[k] < b[k + 1]

\* C4 as claimed: in a run started after a kill inside a batch, no batch of
\* any fetch_users_in_batches call holds a user_id at or below the
\* checkpoint value that was durable when the run started.
C4_Claimed_RunNeverYieldsAtOrBelowCheckpoint ==
    run_start.after_kill_in_batch =>
        \A u \in YieldedUsers(yielded) : u > run_start.checkpoint

\* C4 as amended: in such a run, no batch of the daily tier's call, the
\* call that resumes from the checkpoint found at the start of the run,
\* holds a user_id at or below that value, and the cursor never falls
\* below it.  (The weekly tier's call of a Monday run reads the file again
\* after the daily tier has reset it.)
C4_ResumedCallNeverYieldsAtOrBelowCheckpoint ==
    run_start.after_kill_in_batch =>
        /\ \A u \in YieldedUsers(DailyYielded) : u > run_start.checkpoint
        /\ (frequency = "daily" /\ pc \notin {"idle", "exit"}) =>
              last_id >= run_start.checkpoint

\* C4 witness: a run started after a kill inside a batch, with a non-zero
\* checkpoint, has yielded a daily batch although an eligible daily user
\* sits at or below the checkpoint.
C4_Witness ==
    /\ run_start.after_kill_in_batch
    /\ run_start.checkpoint > 0
    /\ DailyYielded /= <<>>
    /\ \E u \in Users : u <= run_start.checkpoint /\ Eligible(u, "daily")

\* C5: every batch fetch_users_in_batches has yielded, for every capacity
\* batch_size >= 1 and every table, has between 1 and batch_size users and
\* strictly increasing user_ids.
C5_BatchesBoundedAndIncreasing ==
    \A k \in 1..Len(yielded) :
        /\ Len(yielded[k].batch) >= 1
        /\ Len(yielded[k].batch) <= batch_size
        /\ StrictlyIncreasing(yielded[k].batch)

\* C5 witness: with capacity 2 a full batch and then a shorter one were
\* yielded.
C5_Witness ==
    /\ batch_size = 2
    /\ Len(yielded) = 2
    /\ Len(yielded[1].batch) = 2
    /\ Len(yielded[2].batch) = 1

\* C6: inside process_user_batch the users handled so far are exactly the
\* first idx - 1 users of the batch, each once and in batch order;
\* successful_ids lists, in order, those whose send_email returned True;
\* emails_sent grew by their number, failed by the number of the others,
\* records_processed by both; and every position after the loop has seen
\* the whole batch, whatever failed.
C6_EveryUserAttemptedOnceInOrder ==
    (pc \in BatchPcs /\ pc /= "open_smtp") =>
        /\ Len(send_results) = idx - 1
        /\ Len(send_results) <= Len(batch)
        /\ \A k \in 1..Len(send_results) :
              send_results[k].user_id = batch[k]
        /\ successful_ids =
              SelectSeq(SubSeq(batch, 1, Len(send_results)),
                        LAMBDA u : u \in SentOk)
        /\ stats.emails_sent = entry.stats.emails_sent + Len(successful_ids)
        /\ stats.failed = entry.stats.failed
                          + Len(send_results) - Len(successful_ids)
        /\ stats.records_processed = entry.stats.records_processed
                                     + Len(send_results)
        /\ pc /= "send" => Len(send_results) = Len(batch)

\* C6 witness: a batch of three returns after its first send failed and
\* its second succeeded.
C6_Witness ==
    /\ pc = "batch_return"
    /\ Len(batch) = 3
    /\ send_results[1].result = "false"
    /\ send_results[2].result = "true"
    /\ stats.failed > entry.stats.failed

\* C7: a send_email call makes at most max_retries attempts, never raises,
\* returns True exactly when its last attempt was handed off, makes no
\* attempt after a hand-off, and returns False only after max_retries
\* failed attempts.
C7_SendEmailBoundedAndTotal ==
    send_ret /= <<>> =>
        LET r == send_ret[1]
            outcomes == send_args[1].outcomes
            max_retries == send_args[1].max_retries
        IN  /\ r.attempts <= max_retries
            /\ ~r.raised
            /\ r.result <=> (r.attempts >= 1 /\ outcomes[r.attempts] = "ok")
            /\ \A k \in 1..(r.attempts - 1) : outcomes[k] /= "ok"
            /\ ~r.result => r.attempts = max_retries

\* C7 witness: with max_retries = 3 three attempts failed on different
\* exceptions and the call returned False.
C7_Witness ==
    /\ send_ret /= <<>>
    /\ send_args[1].max_retries = 3
    /\ send_args[1].outcomes[1] = "SMTPException"
    /\ send_args[1].outcomes[2] = "Exception"
    /\ send_args[1].outcomes[3] = "Exception"
    /\ ~send_ret[1].result
    /\ send_ret[1].attempts = 3

\* C8: a send_email call sleeps once after each failed attempt that is not
\* the last one allowed, RETRY_DELAY * 2^(k-1) seconds after attempt k, and
\* not after the final attempt: with max_retries = 3 and every attempt
\* failing the sleeps are 2 and 4 seconds.
C8_BackoffDoubles ==
    send_ret /= <<>> =>
        LET r == send_ret[1]
            max_retries == send_args[1].max_retries
        IN  /\ Len(r.sleeps) = (IF r.attempts = 0 THEN 0 ELSE r.attempts - 1)
            /\ \A k \in 1..Len(r.sleeps) :
                  r.sleeps[k] = RETRY_DELAY * (2 ^ (k - 1))
            /\ (max_retries = 3 /\ ~r.result) => r.sleeps = <<2, 4>>

\* C8 witness: max_retries = 3, every attempt failed, the sleeps were 2, 4.
C8_Witness ==
    /\ send_ret /= <<>>
    /\ send_args[1].max_retries = 3
    /\ ~send_ret[1].result
    /\ send_ret[1].attempts = 3
    /\ send_ret[1].sleeps = <<2, 4>>

\* C9: when process_user_batch returns after at least one successful send,
\* it has issued one UPDATE, then the commit, then the checkpoint write;
\* exactly the successful users carry today's date and everybody else is
\* as at entry; the checkpoint file holds the highest successful user_id.
\* For batch [1,2,3] with only user 2 failing, failed grew by 1,
\* emails_sent by 2 (to 1 and 2 in the run's first batch) and the
\* checkpoint is 3.
C9_BulkUpdateThenCheckpointOfHighest ==
    (pc = "batch_return" /\ successful_ids /= <<>>) =>
        /\ DbEffects = <<"execute", "commit", "save_checkpoint">>
        /\ Range(successful_ids) = SentOk
        /\ \A u \in Users :
              last_email_sent_at[u] =
                  IF u \in SentOk THEN current_date
                  ELSE entry.last_email_sent_at[u]
        /\ staged = {}
        /\ checkpoint_file = Json(Max(SentOk))
        /\ (batch = <<1, 2, 3>> /\ SentOk = {1, 3}) =>
              /\ stats.failed = entry.stats.failed + 1
              /\ stats.emails_sent = entry.stats.emails_sent + 2
              /\ entry.stats = ZeroStats =>
                    (stats.failed = 1 /\ stats.emails_sent = 2)
              /\ get_last_processed_id = 3

\* C9 witness: batch [1,2,3], first of its run, returns with user 2 failed
\* and the checkpoint at 3.
C9_Witness ==
    /\ pc = "batch_return"
    /\ batch = <<1, 2, 3>>
    /\ successful_ids = <<1, 3>>
    /\ send_results[2].result = "false"
    /\ entry.stats = ZeroStats
    /\ stats.failed = 1
    /\ stats.emails_sent = 2
    /\ checkpoint_file = Json(3)

\* The daily users that were eligible when this run started: those still
\* eligible and those this run has been handed already.
EligibleDailyAtStart ==
    {u \in Users : Eligible(u, "daily")} \cup YieldedUsers(DailyYielded)

\* The run of the end-to-end scenario: checkpoint 0 at the start, capacity
\* 2, the eligible daily users are 1, 2 and 3, nothing has failed.
Scenario10 ==
    /\ pc \notin {"idle"}
    /\ exc = "none"
    /\ run_start.checkpoint = 0
    /\ batch_size = 2
    /\ EligibleDailyAtStart = {1, 2, 3}
    /\ stats.failed = 0

\* The daily generator has ended (main is past its loop).
DailyDrained == frequency = "weekly" \/ (pc = "exit" /\ alert = "report")

\* C10: in that run the daily generator yields [1,2] and then [3] and
\* nothing else; once [1,2] is dispatched the checkpoint is 2, once [3] is
\* dispatched it is 3; the generator ends only after both, and when it has
\* ended the checkpoint reads 0 and the file holds the object with max_id 0
\* (until a weekly batch moves it).
C10_EndToEnd ==
    Scenario10 =>
        /\ Len(DailyYielded) <= 2
        /\ Len(DailyYielded) >= 1 => DailyYielded[1].batch = <<1, 2>>
        /\ Len(DailyYielded) >= 2 => DailyYielded[2].batch = <<3>>
        /\ (frequency = "daily" /\ Len(DailyYielded) = 1
              /\ pc \in {"batch_return", "gen_query"}) =>
              checkpoint_file = Json(2)
        /\ (frequency = "daily" /\ Len(DailyYielded) = 2
              /\ pc \in {"batch_return", "gen_query"}) =>
              checkpoint_file = Json(3)
        /\ (pc = "gen_reset_dump" \/ DailyDrained) => Len(DailyYielded) = 2
        /\ (DailyDrained /\ Len(yielded) = 2) =>
              /\ get_last_processed_id = 0
              /\ pc \in {"gen_query", "exit"} => checkpoint_file = Json(0)

\* C10 witness: the scenario's run has reported, after exactly the two
\* daily batches, and the checkpoint file holds 0.
C10_Witness ==
    /\ Scenario10
    /\ pc = "exit"
    /\ alert = "report"
    /\ Len(yielded) = 2
    /\ stats.emails_sent = 3
    /\ stats.daily = 3
    /\ checkpoint_file = Json(0)

\* This run is the first after a kill that fell between the commit of a
\* batch and the completion of its checkpoint write.
AfterKillBetweenCommitAndCheckpoint ==
    /\ run_start.after_kill_in_batch
    /\ last_kill.phase = "committed"

\* C11 as claimed: the run that follows a kill between a batch's commit and
\* its checkpoint write delivers that batch again: when it has finished,
\* every user the killed batch had sent to has been fetched once more.
C11_Claimed_NextRunRedeliversCommittedBatch ==
    (AfterKillBetweenCommitAndCheckpoint /\ pc = "exit" /\ alert = "report")
        => \A u \in last_kill.sent : u \in YieldedUsers(yielded)

\* C11 as amended: when that run takes place on the day of the kill, no
\* user the killed batch had sent to is fetched again, in either tier: the
\* committed last_email_sent_at keeps them out of every query.
C11_CommittedBatchNotRedeliveredSameDay ==
    (AfterKillBetweenCommitAndCheckpoint /\ last_kill.date = current_date)
        => /\ \A u \in last_kill.sent :
                 /\ u \notin YieldedUsers(yielded)
                 /\ last_email_sent_at[u] = current_date
           /\ pc \in BatchPcs => Range(batch) \cap last_kill.sent = {}

\* C11 witness: such a run, resumed the same day from a checkpoint below
\* the killed batch, has dispatched other users and reported.
C11_Witness ==
    /\ AfterKillBetweenCommitAndCheckpoint
    /\ last_kill.date = current_date
    /\ last_kill.sent /= {}
    /\ run_start.checkpoint < Min(last_kill.sent)
    /\ yielded /= <<>>
    /\ pc = "exit"
    /\ alert = "report"

\* This run is the first after a kill inside process_user_batch and takes
\* place on the day of the kill.
RerunSameDayAfterKillInBatch ==
    /\ run_start.after_kill_in_batch
    /\ last_kill.phase /= "none"
    /\ last_kill.date = current_date
\* The users who have been handed today's e-mail more than once
Duplicated == {u \in Users : inbox[u] >= 2}

\* C12: in a rerun on the day of a kill inside a batch, the checkpoint the
\* run starts from is the one written by the last batch that completed its
\* checkpoint write; every user e-mailed a second time was sent to by the
\* killed batch; there are at most batch_size of them; and no user handed
\* to the dispatcher carries today's committed last_email_sent_at.
C12_KillLeavesCheckpointAndBoundedDuplicates ==
    RerunSameDayAfterKillInBatch =>
        /\ run_start.checkpoint = last_kill.checkpoint
        /\ Duplicated \subseteq last_kill.sent
        /\ Cardinality(Duplicated) <= batch_size
        /\ pc \in BatchPcs =>
              \A u \in Range(batch) :
                  entry.last_email_sent_at[u] /= current_date

\* C13: save_checkpoint is atomic: whenever a kill has left no process
\* behind, the checkpoint file is absent (never written) or holds a whole
\* JSON object, the previous one or the new one, never an emptied or
\* half-written file; after a kill inside a batch it reads as the value of
\* the last completed write or as the value being written.
C13_SaveCheckpointAtomic ==
    pc = "idle" =>
        /\ checkpoint_file.kind \in {"absent", "json"}
        /\ last_kill.phase = "committed" =>
              \/ get_last_processed_id = last_kill.checkpoint
              \/ get_last_processed_id = Max(last_kill.sent)

\* C14: get_last_processed_id never raises and returns an integer: max_id
\* when the file is a well-formed checkpoint, and 0 when the file is
\* absent, unreadable, not valid JSON or without a usable max_id.
C14_ReadNeverRaisesAndReturnsInteger ==
    read_ret /= <<>> =>
        LET f == read_ret[1].file
            r == read_ret[1].result
        IN  /\ ~r.raised
            /\ r.type = "int"
            /\ r.value = IF f.kind = "json" THEN f.max_id ELSE 0

\* C15: a query of fetch_users_in_batches that returns no row makes the
\* generator call save_checkpoint(0) and yields nothing; unless the process
\* is killed there, the write completes with the object of max_id 0, the
\* generator has ended (main is past that tier's loop) and has yielded
\* nothing more; a batch is yielded only by a query that returned rows;
\* and the object of max_id 0 is written at no other point: the
\* generator calls save_checkpoint(0) only on an empty result, and the
\* dispatcher never writes 0.
C15_ExhaustionEndsAndResets ==
    [][/\ (/\ pc = "gen_query"
           /\ Query(frequency, last_id, batch_size) = <<>>
           /\ pc' \notin {"idle", "exit"})
          => (pc' = "gen_reset_dump" /\ yielded' = yielded)
       /\ (pc = "gen_reset_dump" /\ pc' /= "idle")
          => /\ checkpoint_file' = Json(0)
             /\ yielded' = yielded
             /\ (frequency' /= frequency \/ pc' = "exit")
       /\ Len(yielded') > Len(yielded)
          => /\ pc = "gen_query"
             /\ Query(frequency, last_id, batch_size) /= <<>>
       /\ pc' = "gen_reset_dump"
          => /\ pc = "gen_query"
             /\ Query(frequency, last_id, batch_size) = <<>>
       /\ (checkpoint_file' = Json(0) /\ checkpoint_file /= Json(0))
          => pc = "gen_reset_dump"
      ]_vars

\* C15 witness: the daily generator has ended after yielding two batches
\* that moved the checkpoint, the file holds max_id 0, and the weekly
\* generator is about to query.
C15_Witness ==
    /\ pc = "gen_query"
    /\ frequency = "weekly"
    /\ Len(DailyYielded) = 2
    /\ stats.emails_sent > 0
    /\ checkpoint_file = Json(0)

\* C16: with no query failure, every batch fetch_users_in_batches yields
\* moves the local cursor strictly up, to a user_id of the (finite) table,
\* and a generator that is asked for its next batch eventually finds no
\* row and ends.
C16_PaginationTerminates ==
    /\ [][Len(yielded') > Len(yielded)
            => (last_id' > last_id /\ last_id' \in Users)]_vars
    /\ (pc = "gen_query" ~> pc = "gen_reset_dump")

\* C16 witness: a generator has ended after two batches although a user
\* whose send failed is still eligible below its cursor.
C16_Witness ==
    /\ pc = "gen_reset_dump"
    /\ Len(yielded) >= 2
    /\ stats.failed > 0
    /\ \E u \in Users : Eligible(u, frequency) /\ u <= last_id

\* C17: a step of the generator's query either yields exactly the page
\* after the cursor, or finds no row, or is the failure: the error reaches
\* main's handler with the cursor, the yielded batches, the table and the
\* checkpoint file untouched; and after the failure the process only ends:
\* nothing more is fetched and the checkpoint file stays as it is.
C17_QueryFailurePropagates ==
    [][/\ (pc = "gen_query" /\ pc' /= "idle")
          => \/ /\ pc' = "open_smtp"
                /\ batch' = Query(frequency, last_id, batch_size)
                /\ batch' /= <<>>
             \/ /\ pc' = "gen_reset_dump"
                /\ Query(frequency, last_id, batch_size) = <<>>
             \/ /\ pc' = "exit"
                /\ exc' = "query"
                /\ alert' = "failure"
                /\ UNCHANGED <<checkpoint_file, last_email_sent_at,
                               last_id, yielded, frequency>>
       /\ exc = "query"
          => /\ pc = "exit"
             /\ pc' = "idle"
             /\ yielded' = <<>>
             /\ checkpoint_file' = checkpoint_file
      ]_vars

\* C17 witness: the query for a second page has failed while rows were
\* left to fetch; the checkpoint file still holds what the first batch
\* wrote.
C17_Witness ==
    /\ pc = "exit"
    /\ exc = "query"
    /\ Len(yielded) = 1
    /\ Query(frequency, last_id, batch_size) /= <<>>
    /\ checkpoint_file.kind = "json"
    /\ checkpoint_file.max_id > 0

\* C18: when the SMTP session of a batch could not be opened or
\* authenticated, no send_email call was made for the batch, the
\* statistics are as at entry, no UPDATE, commit or checkpoint write was
\* issued (table and file as at entry, nothing staged), the session was
\* rolled back and the error has reached main's handler.
C18_SmtpOpenFailureAbortsBatch ==
    (pc = "exit" /\ exc = "smtp") =>
        /\ Last(trace) = "rollback"
        /\ "send" \notin Range(trace)
        /\ DbEffects = <<>>
        /\ send_results = <<>>
        /\ successful_ids = <<>>
        /\ stats = entry.stats
        /\ staged = {}
        /\ last_email_sent_at = entry.last_email_sent_at
        /\ checkpoint_file = entry.checkpoint_file
        /\ smtp = "closed"
        /\ alert = "failure"

\* C18 witness: the SMTP session of a run's second batch cannot be opened,
\* after the first batch was sent and checkpointed.
C18_Witness ==
    /\ pc = "exit"
    /\ exc = "smtp"
    /\ Len(yielded) = 2
    /\ batch = yielded[2].batch
    /\ stats.emails_sent > 0
    /\ checkpoint_file.kind = "json"
    /\ checkpoint_file.max_id > 0

\* C19: the step on which an SMTP session, an UPDATE, a commit or a query
\* fails takes the run to its end: the failure alert is sent, no batch is
\* yielded and no other generator is created on that step; from then on
\* the process only exits, leaving table and checkpoint file alone; and
\* when the failure fell in the daily tier, no weekly batch was or will be
\* yielded by that run, on a Monday as on any other day.
C19_FatalFailureHaltsRun ==
    [][/\ (exc = "none" /\ exc' /= "none")
          => /\ exc' \in {"smtp", "update", "commit", "query"}
             /\ pc' = "exit"
             /\ alert' = "failure"
             /\ yielded' = yielded
             /\ frequency' = frequency
       /\ exc /= "none"
          => /\ pc = "exit"
             /\ pc' = "idle"
             /\ yielded' = <<>>
             /\ UNCHANGED <<last_email_sent_at, checkpoint_file>>
             /\ frequency = "daily" => DailyYielded = yielded
      ]_vars

\* C19 witness: on a Monday the commit of a daily batch has failed while
\* daily users were left to fetch and a weekly user was waiting.
C19_Witness ==
    /\ pc = "exit"
    /\ exc = "commit"
    /\ day_name = "Monday"
    /\ frequency = "daily"
    /\ Query("daily", last_id, batch_size) /= <<>>
    /\ \E u \in Users : Eligible(u, "weekly")

\* C20: when a run has come to its end, a run that found no quote or met
\* an SMTP session, UPDATE, commit or query failure has sent the failure
\* alert; a run that found no quote has fetched and dispatched nothing;
\* and a run that met no such failure, whatever sends failed in it, has
\* sent the normal report.
C20_FatalEndsAlertedOthersReported ==
    pc = "exit" =>
        /\ (~run_start.quote \/ exc /= "none") => alert = "failure"
        /\ ~run_start.quote =>
              (yielded = <<>> /\ stats = ZeroStats /\ trace = <<>>)
        /\ (run_start.quote /\ exc = "none") => alert = "report"

\* C21: the pipeline is strictly sequential.  A query is issued only while
\* no batch is in hand (nothing staged, no SMTP session, no call frame);
\* the generator is asked for a batch only at the start of a tier or when
\* process_user_batch has returned; process_user_batch returns only after
\* its UPDATE, commit and checkpoint write, in that order, or after it
\* decided to skip them because no send succeeded; and the batch in hand
\* is always the last one yielded.
C21_StrictlySequential ==
    [][/\ Len(yielded') > Len(yielded)
          => /\ pc = "gen_query"
             /\ batch = <<>> /\ staged = {} /\ smtp = "closed"
             /\ trace = <<>>
             /\ Len(yielded') = Len(yielded) + 1
             /\ batch' = Last(yielded').batch
       /\ (pc' = "gen_query" /\ pc /= "gen_query")
          => pc \in {"idle", "gen_reset_dump", "batch_return"}
       /\ (pc = "batch_return" /\ pc' = "gen_query")
          => /\ staged = {} /\ smtp = "closed"
             /\ Len(send_results) = Len(batch)
             /\ \/ /\ successful_ids = <<>>
                   /\ DbEffects = <<>>
                   /\ checkpoint_file = entry.checkpoint_file
                \/ /\ successful_ids /= <<>>
                   /\ DbEffects = <<"execute", "commit", "save_checkpoint">>
                   /\ checkpoint_file = Json(Last(successful_ids))
                   /\ \A u \in Range(successful_ids) :
                         last_email_sent_at[u] = current_date
       /\ pc' \in BatchPcs
          => (yielded' /= <<>> /\ batch' = Last(yielded').batch)
      ]_vars

\* C21 witness: the second batch of a run has just been fetched; the first
\* one is committed and the checkpoint file holds its last user.
C21_Witness ==
    /\ pc = "open_smtp"
    /\ Len(yielded) = 2
    /\ checkpoint_file = Json(Last(yielded[1].batch))
    /\ \A u \in Range(yielded[1].batch) : last_email_sent_at[u] = current_date
    /\ batch = yielded[2].batch

\* Where the events of a kind sit in the trace of the batch in hand
Positions(events) == {k \in 1..Len(trace) : trace[k] \in events}
SmtpOpens == Positions({"smtp_open", "smtp_connect"})
SmtpCloses == Positions({"smtp_close"})

\* C22: process_user_batch opens at most one SMTP session per batch;
\* every send_email call of the batch is made on that session, after it
\* was opened and before it is closed; and once the batch is past its
\* loop, has returned, or has ended by an error (SMTP, UPDATE or commit),
\* every session it opened has been closed.
C22_OneSmtpSessionPerBatch ==
    /\ Cardinality(SmtpOpens) <= 1
    /\ Cardinality(SmtpCloses) <= Cardinality(SmtpOpens)
    /\ \A k \in Positions({"send"}) :
          /\ \E o \in Positions({"smtp_open"}) : o < k
          /\ \A c \in SmtpCloses : k < c
    /\ pc = "send" =>
          /\ smtp = "open"
          /\ Cardinality(SmtpOpens) = 1 /\ SmtpCloses = {}
    /\ smtp = "open" => pc = "send"
    /\ pc \in {"bulk_update", "commit", "save_checkpoint",
               "save_checkpoint_dump", "batch_return"} =>
          /\ smtp = "closed"
          /\ Cardinality(SmtpOpens) = 1 /\ Cardinality(SmtpCloses) = 1
          /\ Cardinality(Positions({"send"})) = Len(batch)
    /\ (pc = "exit" /\ exc \in {"smtp", "update", "commit"}) =>
          /\ smtp = "closed"
          /\ Cardinality(SmtpCloses) = Cardinality(SmtpOpens)

\* C22 witness: a batch of three has returned; its three sends went
\* through the one session, which is closed.
C22_Witness ==
    /\ pc = "batch_return"
    /\ Len(batch) = 3
    /\ trace[1] = "smtp_open"
    /\ SubSeq(trace, 2, 4) = <<"send", "send", "send">>
    /\ trace[6] = "smtp_close"
    /\ smtp = "closed"

\* C22 second case: the login of a session failed, and the session the
\* with block had entered is closed.
C22_WitnessError ==
    /\ pc = "exit"
    /\ exc = "smtp"
    /\ trace = <<"smtp_connect", "smtp_close", "rollback">>

\* C23: in the trace of one process_user_batch call, between any two
\* consecutive send_email calls there is exactly one RATE_LIMIT_DELAY
\* sleep.
C23_SleepBetweenConsecutiveSends ==
    \A i \in Positions({"send"}) : \A j \in Positions({"send"}) :
        (i < j /\ \A k \in Positions({"send"}) : ~(i < k /\ k < j))
            => Cardinality({k \in Positions({"sleep"}) : i < k /\ k < j}) = 1

\* C24: whenever process_user_batch is running, for a daily or a weekly
\* batch, main is inside the "with Session() as session" block whose
\* session the call was given.
C24_BatchDispatchedInsideSessionScope ==
    pc \in BatchPcs => session_open

\* The tiers a run of that day goes through
TiersOfRun == IF day_name = "Monday" THEN {"daily", "weekly"} ELSE {"daily"}
\* The run has ended without a fatal error
RunReported == pc = "exit" /\ alert = "report"

\* C25: when a run has ended without a fatal error, every user who was
\* eligible for one of its tiers when it started has been handed to the
\* dispatcher during the run, whatever the checkpoint file held at its
\* start.  (A user eligible at the start is still eligible at the end
\* unless this run committed the user's delivery, and then the user was
\* in a batch of this run.)
C25_EveryEligibleUserAttempted ==
    RunReported =>
        \A u \in Users : \A f \in TiersOfRun :
            Eligible(u, f) => u \in YieldedUsers(yielded)

\* The users who were handed the e-mail more than once by the processes
\* running side by side
SentTwice == {u \in Users : delivered[u] >= 2}

\* C26: a process running alone never hands a user the e-mail twice; and
\* no process, alone or not, fetches a user whose delivery is already
\* committed today: a user is sent to by two processes only when both
\* fetched the user before either committed.
C26_DoubleSendNeedsConcurrentRuns ==
    /\ concurrency = 1 => SentTwice = {}
    /\ \A p \in Procs : proc[p].stale = {}

\* C26 witness: two processes have read the same checkpoint, have fetched
\* the same batch, and one user of it has been sent the e-mail by both
\* while neither has committed.
C26_Witness ==
    /\ concurrency = 2
    /\ proc[1].read = proc[2].read
    /\ proc[1].batch /= <<>>
    /\ proc[1].batch = proc[2].batch
    /\ \E u \in SentTwice :
          /\ u \in Range(proc[1].successful_ids)
          /\ u \in Range(proc[2].successful_ids)
          /\ last_email_sent_at[u] = NULL
    /\ proc[1].pc \in {"send", "commit"}
    /\ proc[2].pc \in {"send", "commit"}
    /\ last_email_sent_at = [u \in Users |-> NULL]

\* C27: in one run, the batches the generators have yielded are pairwise
\* disjoint, and within a tier each batch lies wholly above the one before
\* it; so the users handed to process_user_batch so far are pairwise
\* different.
C27_NoUserInTwoBatches ==
    /\ \A k \in 1..Len(yielded) : \A l \in 1..Len(yielded) :
          k < l =>
             /\ Range(yielded[k].batch) \cap Range(yielded[l].batch) = {}
             /\ yielded[k].frequency = yielded[l].frequency =>
                   Last(yielded[k].batch) < yielded[l].batch[1]
    /\ pc \in BatchPcs =>
          \A k \in 1..(Len(yielded) - 1) :
              Range(yielded[k].batch) \cap Range(batch) = {}

\* C27 witness: a run has ended after three batches although the user of
\* its first batch, whose send failed, was still eligible for every later
\* query.
C27_Witness ==
    /\ RunReported
    /\ Len(yielded) = 3
    /\ stats.emails_sent = 2
    /\ \E u \in Range(yielded[1].batch) : Eligible(u, yielded[1].frequency)

\* C28: the weekly generator is created only on the step that ends the
\* daily generator (its last query found no row), in a run whose day is
\* Monday and that has met no fatal error; every batch yielded holds users
\* of the tier being paginated, a weekly one only on a Monday; and in a
\* run of any other day the tier stays daily and no weekly subscriber is
\* in any batch, so none is e-mailed.
C28_WeeklyOnlyOnMondayAfterDaily ==
    [][/\ (frequency' = "weekly" /\ frequency /= "weekly")
          => /\ pc = "gen_reset_dump"
             /\ Query("daily", last_id, batch_size) = <<>>
             /\ day_name = "Monday"
             /\ exc = "none" /\ exc' = "none"
       /\ Len(yielded') > Len(yielded)
          => /\ Last(yielded').frequency = frequency
             /\ \A u \in Range(batch') : email_frequency[u] = frequency
             /\ frequency = "weekly" => day_name = "Monday"
       /\ day_name' /= "Monday"
          => /\ frequency' = "daily"
             /\ \A u \in YieldedUsers(yielded') \cup Range(batch') :
                   email_frequency[u] = "daily"
       /\ (pc = "send" /\ pc' = "send" /\ day_name /= "Monday")
          => email_frequency[batch[idx]] = "daily"
      ]_vars

\* C28 witness: a Tuesday run has dispatched daily batches and reported
\* while an eligible weekly subscriber was never fetched.
C28_Witness ==
    /\ RunReported
    /\ day_name = "Tuesday"
    /\ yielded /= <<>>
    /\ stats.weekly = 0
    /\ \E u \in Users : Eligible(u, "weekly")

\* C29: between the recipients of a batch, at the end of every batch and
\* at the end of every run, records_processed = emails_sent + failed; and
\* while a batch is in hand, successful_ids has as many user_ids as
\* emails_sent has grown since the batch was entered.
C29_StatsAddUp ==
    /\ stats.records_processed = stats.emails_sent + stats.failed
    /\ pc \in BatchPcs =>
          /\ Len(successful_ids) = stats.emails_sent - entry.stats.emails_sent
          /\ entry.stats.records_processed
                = entry.stats.emails_sent + entry.stats.failed
    /\ (pc = "exit" /\ batch /= <<>>) =>
          Len(successful_ids) = stats.emails_sent - entry.stats.emails_sent

\* C29 witness: a run has reported after two batches in which sends both
\* succeeded and failed.
C29_Witness ==
    /\ RunReported
    /\ Len(yielded) = 2
    /\ stats.records_processed = 3
    /\ stats.emails_sent = 2
    /\ stats.failed = 1

====
